---- MODULE Spec2Model ----
(***************************************************************************)
(* Azure AD directory synchronisation of the HRIS platform:                *)
(*   accounts/azure_ad_service.py   AzureADService (the reconciler)        *)
(*   accounts/tasks.py              Celery tasks (retry wrapper, sweeps)   *)
(*   accounts/azure_ad_views.py     REST endpoints                         *)
(*   accounts/azure_ad_admin_actions.py  admin actions                     *)
(*   accounts/models.py             User, AzureADSettings                  *)
(***************************************************************************)
EXTENDS Integers, Sequences, FiniteSets, TLC

VARIABLES users, cfg, django, now, nextId, created, creates, last, queue, attempts, enqueued,
          modified, cache, procs

vars == <<users, cfg, django, now, nextId, created, creates, last, queue, attempts, enqueued,
          modified, cache, procs>>

(* ---------------------------------------------------------------- bounds *)
\* number of object ids the remote directory can hand out in one behaviour
MaxIds == 2
\* number of task messages submitted from outside the retry wrapper
MaxEnqueue == 1
\* capacity of the broker queue
MaxQueue == 4

\* the primary keys of the users table (the sync targets)
Users == {1}
RemoteIds == 1..MaxIds

\* None of Python, for the object id and the timestamp (ids and times are >= 1)
NULL == 0

(* ------------------------------------------------------- strings, trim *)
\* character strings are sequences of characters; "" is << >>
EmptyStr == << >>

RECURSIVE lstrip(_)
lstrip(s) == IF s # << >> /\ Head(s) = " " THEN lstrip(Tail(s)) ELSE s

RECURSIVE rstrip(_)
rstrip(s) ==
    IF s # << >> /\ s[Len(s)] = " " THEN rstrip(SubSeq(s, 1, Len(s) - 1)) ELSE s

\* str.strip()
strip(s) == rstrip(lstrip(s))

(* ------------------------------------------------------ configuration *)
\* AzureADSettings.is_configured
is_configured(s) ==
    /\ s.enabled
    /\ s.tenant_id # EmptyStr
    /\ s.client_id # EmptyStr
    /\ s.client_secret # EmptyStr
    /\ Len(strip(s.tenant_id)) > 0
    /\ Len(strip(s.client_id)) > 0
    /\ Len(strip(s.client_secret)) > 0

\* the credential triples (tenant id, client id, client secret) the admin enters
Credentials ==
    { <<x, x, x>> : x \in {<<"x">>} } \cup
    { << <<" ">>, <<"x">>, <<"x">> >>,
      << <<"x">>, << >>, <<"x">> >>,
      << <<"x">>, <<"x">>, <<" ">> >> }

Configs ==
    { [enabled |-> en, sync_enabled |-> se,
       tenant_id |-> c[1], client_id |-> c[2], client_secret |-> c[3]] :
      en \in BOOLEAN, se \in BOOLEAN, c \in Credentials \cup {<< << >>, << >>, << >> >>} }

(* --------------------------------------------------------- error texts *)
\* a text is a sequence of chunks; f-strings concatenate with \o
ERR_USER_DISABLED  == <<"Azure AD sync is disabled for this user">>
ERR_NOT_CONFIGURED == <<"Azure AD is not configured">>
ERR_SYNC_DISABLED  == <<"Azure AD sync is disabled">>
ERR_EXISTS         == <<"User already exists in Azure AD">>
ERR_NOT_LINKED     == <<"User does not exist in Azure AD">>
ERR_NO_TOKEN       == <<"Unable to acquire access token">>
ERR_TRANSPORT      == <<"connection error">>
NO_DETAILS         == <<"No details available">>
UNKNOWN_ERROR      == <<"Unknown error">>
RESPONSE_TEXT      == <<"response body">>

Digit(d) == CASE d = 0 -> "0" [] d = 1 -> "1" [] d = 2 -> "2" [] d = 3 -> "3"
              [] d = 4 -> "4" [] d = 5 -> "5" [] d = 6 -> "6" [] d = 7 -> "7"
              [] d = 8 -> "8" [] d = 9 -> "9"

\* str(n) of a non-negative integer: its decimal digits
RECURSIVE Decimal(_)
Decimal(n) == IF n < 10 THEN <<Digit(n)>> ELSE Decimal(n \div 10) \o <<Digit(n % 10)>>

\* the empty dict {} (the result of a response without content)
EmptyDict == << >>

\* dict.get(key, default)
Get(d, key, default) == IF key \in DOMAIN d THEN d[key] ELSE default

(* ------------------------------------------------- the remote directory *)
\* response.status_code in [200, 201, 204]
SuccessCodes == {200, 201, 204}
\* status codes the remote directory answers with; 0 stands for an exception
\* raised by the HTTP library (connection error, timeout)
EXC == 0
FailureCodes == {403, 503}
\* One remote interaction as the environment decides it: whether a token is
\* obtained and, if so, the status of the response.  POST users answers 201
\* with the created object, PATCH and DELETE answer 204 without content.
NoToken == [token |-> FALSE, status |-> EXC]
Envs(method) ==
    {NoToken} \cup
    [token : {TRUE},
     status : (IF method = "POST" THEN {201} ELSE {204}) \cup FailureCodes \cup {EXC}]

TokenCall == [kind |-> "token"]
GraphCall(method, endpoint) == [kind |-> "graph", method |-> method, endpoint |-> endpoint]

\* AzureADService._get_access_token: the token request goes out only when the
\* settings are configured; the environment decides whether a token comes back
_get_access_token(azure_settings, e) ==
    IF ~is_configured(azure_settings) THEN [token |-> FALSE, calls |-> << >>]
    ELSE [token |-> e.token, calls |-> <<TokenCall>>]

\* AzureADService._make_graph_request: (success, result) and the calls issued
_make_graph_request(method, endpoint, azure_settings, e, body) ==
    LET t == _get_access_token(azure_settings, e) IN
    IF ~t.token
    THEN [ok |-> FALSE, result |-> [error |-> ERR_NO_TOKEN], calls |-> t.calls]
    ELSE LET cs == t.calls \o <<GraphCall(method, endpoint)>> IN
         IF e.status = EXC
         THEN [ok |-> FALSE, result |-> [error |-> ERR_TRANSPORT], calls |-> cs]
         ELSE IF e.status \in SuccessCodes
         THEN [ok |-> TRUE, result |-> body, calls |-> cs]
         ELSE [ok |-> FALSE,
               result |-> [error |-> <<"HTTP ">> \o Decimal(e.status),
                           details |-> RESPONSE_TEXT],
               calls |-> cs]

\* faulty variant of error_message: the error of the result is left out
error_message_details(result) == Get(result, "details", NO_DETAILS)

\* f"{result.get('error', 'Unknown error')}: {result.get('details', 'No details available')}"
error_message(result) ==
    Get(result, "error", UNKNOWN_ERROR) \o <<": ">> \o Get(result, "details", NO_DETAILS)

(* ------------------------------------------------------ the reconciler *)
\* a service call that returns before any remote interaction
Refused(user, err) ==
    [user |-> user, ok |-> FALSE, result |-> [error |-> err], calls |-> << >>]

\* faulty variant of create_user_save: a failed create is not recorded
create_user_save_unrecorded(user, r) ==
    IF r.ok
    THEN [user |-> [user EXCEPT !.remote_id = r.result.id,
                                !.status = "synced",
                                !.last_sync = now,
                                !.error = EmptyStr],
          ok |-> TRUE,
          result |-> [azure_ad_object_id |-> r.result.id,
                      temporary_password |-> "temp_password"],
          calls |-> r.calls]
    ELSE [user |-> user, ok |-> FALSE, result |-> r.result, calls |-> r.calls]

\* faulty variant of create_user_save: a successful create keeps the error text
create_user_save_keeping_error(user, r) ==
    IF r.ok
    THEN [user |-> [user EXCEPT !.remote_id = r.result.id,
                                !.status = "synced",
                                !.last_sync = now],
          ok |-> TRUE,
          result |-> [azure_ad_object_id |-> r.result.id,
                      temporary_password |-> "temp_password"],
          calls |-> r.calls]
    ELSE [user |-> [user EXCEPT !.status = "failed",
                                !.error = error_message(r.result)],
          ok |-> FALSE, result |-> r.result, calls |-> r.calls]

\* AzureADService.create_user, after the request: record the outcome on the
\* user, save it, and build the return value
create_user_save(user, r) ==
    IF r.ok
    THEN [user |-> [user EXCEPT !.remote_id = r.result.id,
                                !.status = "synced",
                                !.last_sync = now,
                                !.error = EmptyStr],
          ok |-> TRUE,
          result |-> [azure_ad_object_id |-> r.result.id,
                      temporary_password |-> "temp_password"],
          calls |-> r.calls]
    ELSE [user |-> [user EXCEPT !.status = "failed",
                                !.error = error_message(r.result)],
          ok |-> FALSE, result |-> r.result, calls |-> r.calls]

\* faulty variant of create_user: the is_configured check is missing
create_user_unchecked(user, azure_settings, e, newid) ==
    IF ~azure_settings.enabled \/ ~azure_settings.sync_enabled
    THEN Refused(user, ERR_SYNC_DISABLED)
    ELSE IF user.remote_id # NULL THEN Refused(user, ERR_EXISTS)
    ELSE create_user_save(user,
            _make_graph_request("POST", <<"users">>, azure_settings, e, [id |-> newid]))

\* AzureADService.create_user
create_user(user, azure_settings, e, newid) ==
    IF ~is_configured(azure_settings) THEN Refused(user, ERR_NOT_CONFIGURED)
    ELSE IF ~azure_settings.enabled \/ ~azure_settings.sync_enabled
    THEN Refused(user, ERR_SYNC_DISABLED)
    ELSE IF user.remote_id # NULL THEN Refused(user, ERR_EXISTS)
    ELSE create_user_save(user,
            _make_graph_request("POST", <<"users">>, azure_settings, e, [id |-> newid]))

\* faulty variant of update_user_save: a failed update drops the link
update_user_save_unlinking(user, r) ==
    IF r.ok
    THEN [user |-> [user EXCEPT !.status = "synced",
                                !.last_sync = now,
                                !.error = EmptyStr],
          ok |-> TRUE, result |-> [message |-> "updated"], calls |-> r.calls]
    ELSE [user |-> [user EXCEPT !.remote_id = NULL,
                                !.status = "failed",
                                !.error = error_message(r.result)],
          ok |-> FALSE, result |-> r.result, calls |-> r.calls]

\* AzureADService.update_user, after the request
update_user_save(user, r) ==
    IF r.ok
    THEN [user |-> [user EXCEPT !.status = "synced",
                                !.last_sync = now,
                                !.error = EmptyStr],
          ok |-> TRUE, result |-> [message |-> "updated"], calls |-> r.calls]
    ELSE [user |-> [user EXCEPT !.status = "failed",
                                !.error = error_message(r.result)],
          ok |-> FALSE, result |-> r.result, calls |-> r.calls]

\* AzureADService.update_user
update_user(user, azure_settings, e) ==
    IF ~is_configured(azure_settings) THEN Refused(user, ERR_NOT_CONFIGURED)
    ELSE IF ~azure_settings.enabled \/ ~azure_settings.sync_enabled
    THEN Refused(user, ERR_SYNC_DISABLED)
    ELSE IF user.remote_id = NULL THEN Refused(user, ERR_NOT_LINKED)
    ELSE update_user_save(user,
            _make_graph_request("PATCH", <<"users", user.remote_id>>,
                                azure_settings, e, EmptyDict))

\* AzureADService.disable_user, after the request
disable_user_save(user, r) ==
    IF r.ok
    THEN [user |-> [user EXCEPT !.status = "synced", !.last_sync = now],
          ok |-> TRUE, result |-> [message |-> "disabled"], calls |-> r.calls]
    ELSE [user |-> [user EXCEPT !.status = "failed"],
          ok |-> FALSE, result |-> r.result, calls |-> r.calls]

\* faulty variant of disable_user: the object id is not checked
disable_user_unchecked(user, azure_settings, e) ==
    IF ~is_configured(azure_settings) THEN Refused(user, ERR_NOT_CONFIGURED)
    ELSE IF ~azure_settings.enabled \/ ~azure_settings.sync_enabled
    THEN Refused(user, ERR_SYNC_DISABLED)
    ELSE disable_user_save(user,
            _make_graph_request("PATCH", <<"users", user.remote_id>>,
                                azure_settings, e, EmptyDict))

\* AzureADService.disable_user
disable_user(user, azure_settings, e) ==
    IF ~is_configured(azure_settings) THEN Refused(user, ERR_NOT_CONFIGURED)
    ELSE IF ~azure_settings.enabled \/ ~azure_settings.sync_enabled
    THEN Refused(user, ERR_SYNC_DISABLED)
    ELSE IF user.remote_id = NULL THEN Refused(user, ERR_NOT_LINKED)
    ELSE disable_user_save(user,
            _make_graph_request("PATCH", <<"users", user.remote_id>>,
                                azure_settings, e, EmptyDict))

\* faulty variant of delete_user_save: a successful delete keeps the object id
delete_user_save_linked(user, r) ==
    IF r.ok
    THEN [user |-> [user EXCEPT !.status = "disabled", !.last_sync = now],
          ok |-> TRUE, result |-> [message |-> "deleted"], calls |-> r.calls]
    ELSE [user |-> [user EXCEPT !.status = "failed"],
          ok |-> FALSE, result |-> r.result, calls |-> r.calls]

\* AzureADService.delete_user, after the request
delete_user_save(user, r) ==
    IF r.ok
    THEN [user |-> [user EXCEPT !.remote_id = NULL,
                                !.status = "disabled",
                                !.last_sync = now],
          ok |-> TRUE, result |-> [message |-> "deleted"], calls |-> r.calls]
    ELSE [user |-> [user EXCEPT !.status = "failed"],
          ok |-> FALSE, result |-> r.result, calls |-> r.calls]

\* AzureADService.delete_user
delete_user(user, azure_settings, e) ==
    IF ~is_configured(azure_settings) THEN Refused(user, ERR_NOT_CONFIGURED)
    ELSE IF ~azure_settings.enabled \/ ~azure_settings.sync_enabled
    THEN Refused(user, ERR_SYNC_DISABLED)
    ELSE IF user.remote_id = NULL THEN Refused(user, ERR_NOT_LINKED)
    ELSE delete_user_save(user,
            _make_graph_request("DELETE", <<"users", user.remote_id>>,
                                azure_settings, e, EmptyDict))

\* faulty variant of sync_user_from_hris: the create branch is always taken
sync_user_from_hris_creating(user, force_create, azure_settings, e, newid) ==
    IF ~user.enabled /\ ~force_create THEN Refused(user, ERR_USER_DISABLED)
    ELSE create_user(user, azure_settings, e, newid)

\* faulty variant of sync_user_from_hris: force_create is ignored
sync_user_from_hris_unforced(user, force_create, azure_settings, e, newid) ==
    IF ~user.enabled THEN Refused(user, ERR_USER_DISABLED)
    ELSE IF user.remote_id # NULL
    THEN update_user(user, azure_settings, e)
    ELSE create_user(user, azure_settings, e, newid)

\* AzureADService.sync_user_from_hris
sync_user_from_hris(user, force_create, azure_settings, e, newid) ==
    IF ~user.enabled /\ ~force_create THEN Refused(user, ERR_USER_DISABLED)
    ELSE IF user.remote_id # NULL
    THEN update_user(user, azure_settings, e)
    ELSE create_user(user, azure_settings, e, newid)

(* ------------------------------------------------------------- state *)
\* users    : the users table, one row per sync target
\* cfg      : the AzureADSettings singleton row (what get_settings() returns)
\* django   : the process settings AZURE_AD_ENABLED and AZURE_AD_SYNC_ENABLED
\* now      : the wall clock (django_timezone.now())
\* nextId   : the object id the remote directory hands out at its next create
\* created  : per user, the ids that remote create responses returned for it
\* creates  : per user, the successful remote creates since the last unlink
\*            or successful remote delete
\* last     : the log of the latest operation: its name and, per user, the
\*            service call made for it (result and remote calls issued)
\* queue    : the task messages in the broker, a bag of [user, action, retries]
\* attempts : per user, the runs of sync_user_to_azure_ad that reached the
\*            service call
\* enqueued : per user, the task messages submitted from outside the task
\* modified : per user, the time its row was last changed (the User model
\*            stores no such time)
\* cache    : the entry 'azure_ad_settings' of the Django cache; where save()
\*            and get_settings() run one at a time an entry equals the row,
\*            and get_settings() is read off cfg with the cache left empty
\* procs    : the position and the local variable of every process inside
\*            AzureADSettings.save() or AzureADSettings.get_settings()
Statuses == {"pending", "synced", "failed", "disabled"}

\* cache.get(...) is None
NoEntry == [hit |-> FALSE]
\* the processes that write or read the settings: one writer, the readers
Readers == {"r1", "r2"}
Procs == {"w"} \cup Readers
\* no process is inside save() or get_settings()
Idle == [p \in Procs |-> [pc |-> "idle"]]

\* User model defaults (models.py)
NewUser ==
    [remote_id |-> NULL, enabled |-> TRUE, status |-> "pending",
     last_sync |-> NULL, error |-> EmptyStr]

\* get_or_create defaults of AzureADSettings.get_settings
DefaultSettings ==
    [enabled |-> FALSE, sync_enabled |-> FALSE,
     tenant_id |-> EmptyStr, client_id |-> EmptyStr, client_secret |-> EmptyStr]

\* settings.py: config('AZURE_AD_ENABLED', default=False), config('AZURE_AD_SYNC_ENABLED', default=False)
DjangoDefaults == [AZURE_AD_ENABLED |-> FALSE, AZURE_AD_SYNC_ENABLED |-> FALSE]
DjangoSettings == [AZURE_AD_ENABLED : BOOLEAN, AZURE_AD_SYNC_ENABLED : BOOLEAN]

NoCall == [called |-> FALSE]
Called(r, force) ==
    [called |-> TRUE, force |-> force, ok |-> r.ok, result |-> r.result, calls |-> r.calls]
NoCalls == [u \in Users |-> NoCall]

IssuedGraph(calls, method) ==
    \E i \in 1..Len(calls) : calls[i].kind = "graph" /\ calls[i].method = method
IssuedAny(calls) == calls # << >>
CreateSucceeded(r) == r.ok /\ IssuedGraph(r.calls, "POST")
DeleteSucceeded(r) == r.ok /\ IssuedGraph(r.calls, "DELETE")

\* the HTTP method of the request a sync of this row would issue
sync_method(user) == IF user.remote_id # NULL THEN "PATCH" ELSE "POST"

\* the environment's answer matters only to a call that reaches the remote
\* directory; a refused call is paired with one fixed answer
EnvUsed(r, e) == IssuedAny(r.calls) \/ e = NoToken

\* the remote directory can answer a create only while it has an id to give
EnvAllowed(user, force, e, nid) ==
    CreateSucceeded(sync_user_from_hris(user, force, cfg, e, nid)) => nid \in RemoteIds

\* the part of the state a service call changes
DB == [users |-> users, nextId |-> nextId, created |-> created,
       creates |-> creates, res |-> NoCalls, valid |-> TRUE]

\* the effect of one service call r on user u (user.save() and the remote side)
Commit(db, u, r, force) ==
    [users   |-> [db.users EXCEPT ![u] = r.user],
     nextId  |-> IF CreateSucceeded(r) THEN db.nextId + 1 ELSE db.nextId,
     created |-> IF CreateSucceeded(r)
                 THEN [db.created EXCEPT ![u] = @ \cup {r.result.azure_ad_object_id}]
                 ELSE db.created,
     creates |-> IF CreateSucceeded(r) THEN [db.creates EXCEPT ![u] = @ + 1]
                 ELSE IF DeleteSucceeded(r) THEN [db.creates EXCEPT ![u] = 0]
                 ELSE db.creates,
     res     |-> [db.res EXCEPT ![u] = Called(r, force)],
     valid   |-> db.valid]

\* the rows whose stored state a step changes are modified at the time of the step
Touch == modified' = [u \in Users |-> IF users'[u] # users[u] THEN now ELSE modified[u]]

Install(db, op) ==
    /\ users' = db.users
    /\ nextId' = db.nextId
    /\ created' = db.created
    /\ creates' = db.creates
    /\ last' = [op |-> op, res |-> db.res]
    /\ Touch

Init ==
    /\ users = [u \in Users |-> NewUser]
    /\ cfg = DefaultSettings
    /\ django = DjangoDefaults
    /\ now = 1
    /\ nextId = 1
    /\ created = [u \in Users |-> {}]
    /\ creates = [u \in Users |-> 0]
    /\ last = [op |-> "init", res |-> NoCalls]
    /\ queue = << >>
    /\ attempts = [u \in Users |-> 0]
    /\ enqueued = [u \in Users |-> 0]
    /\ modified = [u \in Users |-> 1]
    /\ cache = NoEntry
    /\ procs = Idle

(* ------------------------------------------- direct reconciler calls *)
\* sync_user_from_hris(user, force_create) called on a freshly loaded user
SyncUserFromHris(u, force, e) ==
    /\ e \in Envs(sync_method(users[u]))
    /\ EnvUsed(sync_user_from_hris(users[u], force, cfg, e, nextId), e)
    /\ EnvAllowed(users[u], force, e, nextId)
    /\ Install(Commit(DB, u, sync_user_from_hris(users[u], force, cfg, e, nextId), force),
               "sync")
    /\ UNCHANGED <<cfg, django, now, queue, attempts, enqueued, cache, procs>>

UpdateUser(u, e) ==
    /\ EnvUsed(update_user(users[u], cfg, e), e)
    /\ Install(Commit(DB, u, update_user(users[u], cfg, e), FALSE), "update")
    /\ UNCHANGED <<cfg, django, now, queue, attempts, enqueued, cache, procs>>

DisableUser(u, e) ==
    /\ EnvUsed(disable_user(users[u], cfg, e), e)
    /\ Install(Commit(DB, u, disable_user(users[u], cfg, e), FALSE), "disable")
    /\ UNCHANGED <<cfg, django, now, queue, attempts, enqueued, cache, procs>>

DeleteUser(u, e) ==
    /\ EnvUsed(delete_user(users[u], cfg, e), e)
    /\ Install(Commit(DB, u, delete_user(users[u], cfg, e), FALSE), "delete")
    /\ UNCHANGED <<cfg, django, now, queue, attempts, enqueued, cache, procs>>

(* ------------------------------------------------------ admin actions *)
\* queryset.update(...) of the rows in S
QuerysetUpdate(S, f(_)) == [u \in Users |-> IF u \in S THEN f(users[u]) ELSE users[u]]

reset_fields(row) == [row EXCEPT !.status = "pending", !.error = EmptyStr, !.enabled = TRUE]
\* reset_sync_status_to_pending
ResetSyncStatusToPending(S) ==
    /\ users' = QuerysetUpdate(S, reset_fields)
    /\ last' = [op |-> "reset", res |-> NoCalls]
    /\ Touch
    /\ UNCHANGED <<cfg, django, now, nextId, created, creates, queue, attempts, enqueued, cache, procs>>

disable_fields(row) == [row EXCEPT !.enabled = FALSE, !.status = "disabled"]
\* disable_azure_ad_sync
DisableAzureAdSync(S) ==
    /\ users' = QuerysetUpdate(S, disable_fields)
    /\ last' = [op |-> "admin_disable", res |-> NoCalls]
    /\ Touch
    /\ UNCHANGED <<cfg, django, now, nextId, created, creates, queue, attempts, enqueued, cache, procs>>

enable_fields(row) == [row EXCEPT !.enabled = TRUE, !.status = "pending"]
\* enable_azure_ad_sync
EnableAzureAdSync(S) ==
    /\ users' = QuerysetUpdate(S, enable_fields)
    /\ last' = [op |-> "admin_enable", res |-> NoCalls]
    /\ Touch
    /\ UNCHANGED <<cfg, django, now, nextId, created, creates, queue, attempts, enqueued, cache, procs>>

\* faulty variant of unlink_fields: the object id is kept
unlink_fields_linked(row) ==
    [row EXCEPT !.status = "pending", !.error = EmptyStr, !.last_sync = NULL]

\* faulty variant of unlink_fields: the status is left as it was
unlink_fields_keeping_status(row) ==
    [row EXCEPT !.remote_id = NULL, !.error = EmptyStr, !.last_sync = NULL]

\* the fields remove_azure_ad_link writes
unlink_fields(row) ==
    [row EXCEPT !.remote_id = NULL, !.status = "pending", !.error = EmptyStr,
                !.last_sync = NULL]
\* remove_azure_ad_link
RemoveAzureAdLink(S) ==
    /\ users' = QuerysetUpdate(S, unlink_fields)
    /\ creates' = [u \in Users |-> IF u \in S THEN 0 ELSE creates[u]]
    /\ last' = [op |-> "unlink", res |-> NoCalls, ids |-> S]
    /\ Touch
    /\ UNCHANGED <<cfg, django, now, nextId, created, queue, attempts, enqueued, cache, procs>>

\* toggle_user_sync
ToggleUserSync(u, enabled) ==
    /\ users' = [users EXCEPT ![u] =
                    [@ EXCEPT !.enabled = enabled,
                              !.status = IF ~enabled THEN "disabled" ELSE "pending"]]
    /\ last' = [op |-> "toggle", res |-> NoCalls]
    /\ Touch
    /\ UNCHANGED <<cfg, django, now, nextId, created, creates, queue, attempts, enqueued, cache, procs>>

Min(S) == CHOOSE x \in S : \A y \in S : x <= y

\* what the loop body of an admin sync action does to a row before the call:
\* force_sync_users_to_azure_ad enables the row and resets it to pending
loop_prep(mode, row) == IF mode = "admin_force_sync" THEN enable_fields(row) ELSE row
\* sync_users_to_azure_ad passes over rows with sync disabled
loop_skip(mode, row) == mode = "admin_sync" /\ ~row.enabled

\* the loop "for user in queryset: ... sync_user_from_hris(user, force_create=True)"
\* over the rows S in id order; envs gives the remote directory's answer to
\* each call
RECURSIVE sync_loop(_, _, _, _)
sync_loop(S, db, envs, mode) ==
    IF S = {} THEN db
    ELSE LET u == Min(S)
             row == loop_prep(mode, db.users[u])
             r == sync_user_from_hris(row, TRUE, cfg, envs[u], db.nextId)
             ok_env == envs[u] \in Envs(sync_method(row)) /\ EnvUsed(r, envs[u])
         IN  IF loop_skip(mode, db.users[u])
             THEN sync_loop(S \ {u}, [db EXCEPT !.valid = @ /\ envs[u] = NoToken], envs, mode)
             ELSE sync_loop(S \ {u},
                            [Commit([db EXCEPT !.users[u] = row], u, r, TRUE)
                               EXCEPT !.valid = db.valid /\ ok_env],
                            envs, mode)

\* every create the loop got answered had an id to return
LoopAllowed(db) == db.valid /\ db.nextId <= MaxIds + 1

\* sync_users_to_azure_ad
SyncUsersToAzureAd(S, envs) ==
    /\ IF ~is_configured(cfg) \/ ~cfg.enabled \/ ~cfg.sync_enabled
       THEN (\A u \in Users : envs[u] = NoToken) /\ Install(DB, "admin_sync")
       ELSE LET db == sync_loop(S, DB, envs, "admin_sync") IN
            LoopAllowed(db) /\ Install(db, "admin_sync")
    /\ UNCHANGED <<cfg, django, now, queue, attempts, enqueued, cache, procs>>

\* force_sync_users_to_azure_ad
ForceSyncUsersToAzureAd(S, envs) ==
    /\ IF ~is_configured(cfg)
       THEN (\A u \in Users : envs[u] = NoToken) /\ Install(DB, "admin_force_sync")
       ELSE LET db == sync_loop(S, DB, envs, "admin_force_sync") IN
            LoopAllowed(db) /\ Install(db, "admin_force_sync")
    /\ UNCHANGED <<cfg, django, now, queue, attempts, enqueued, cache, procs>>

(* ------------------------------------------------------ configuration *)
\* AzureADSettings.save() from the settings admin
SaveSettings(s) ==
    /\ s # cfg
    /\ cfg' = s
    /\ last' = [op |-> "save_settings", res |-> NoCalls]
    /\ UNCHANGED <<users, django, now, nextId, created, creates, queue, attempts, enqueued, modified, cache, procs>>

QuerySets == SUBSET Users \ {{}}
AllEnvs == Envs("POST") \cup Envs("PATCH") \cup Envs("DELETE")

Next ==
    \/ \E u \in Users, force \in BOOLEAN, e \in AllEnvs : SyncUserFromHris(u, force, e)
    \/ \E u \in Users, e \in Envs("PATCH") : UpdateUser(u, e)
    \/ \E u \in Users, e \in Envs("PATCH") : DisableUser(u, e)
    \/ \E u \in Users, e \in Envs("DELETE") : DeleteUser(u, e)
    \/ \E S \in QuerySets : ResetSyncStatusToPending(S)
    \/ \E S \in QuerySets : DisableAzureAdSync(S)
    \/ \E S \in QuerySets : EnableAzureAdSync(S)
    \/ \E S \in QuerySets : RemoveAzureAdLink(S)
    \/ \E u \in Users, enabled \in BOOLEAN : ToggleUserSync(u, enabled)
    \/ \E S \in QuerySets, envs \in [Users -> AllEnvs] : SyncUsersToAzureAd(S, envs)
    \/ \E S \in QuerySets, envs \in [Users -> AllEnvs] : ForceSyncUsersToAzureAd(S, envs)
    \/ \E s \in Configs : SaveSettings(s)

Spec == Init /\ [][Next]_vars

(* ------------------------------------------------ the task and its queue *)
\* @shared_task(bind=True, max_retries=3, ...)
max_retries == 3

valid_actions == {"create", "update", "disable", "delete", "sync"}

\* the attempts counter stops counting here, one past what one run per
\* permitted attempt of every submitted message gives
MaxAttempts == MaxEnqueue * (max_retries + 1) + 1

\* a task message: sync_user_to_azure_ad.delay(user_id, action), and the
\* retry count Celery carries in the request
Message(u, action, retries) == [user_id |-> u, action |-> action, retries |-> retries]

\* the broker queue is a bag of messages, kept as a sequence in a fixed order
\* (insertion keeps it sorted, so equal bags are equal states)
ActionRank(a) ==
    CASE a = "create" -> 1 [] a = "update" -> 2 [] a = "disable" -> 3
      [] a = "delete" -> 4 [] a = "sync" -> 5

Before(m1, m2) ==
    \/ m1.retries < m2.retries
    \/ m1.retries = m2.retries /\ m1.user_id < m2.user_id
    \/ m1.retries = m2.retries /\ m1.user_id = m2.user_id
         /\ ActionRank(m1.action) <= ActionRank(m2.action)

RECURSIVE Publish(_, _)
Publish(q, m) ==
    IF q = << >> THEN <<m>>
    ELSE IF Before(m, Head(q)) THEN <<m>> \o q
    ELSE <<Head(q)>> \o Publish(Tail(q), m)

Remove(q, i) == SubSeq(q, 1, i - 1) \o SubSeq(q, i + 1, Len(q))

\* sync_user_to_azure (REST endpoint): queue the task, then save the row
\* loaded before as pending
SyncUserToAzure(u, action, force) ==
    /\ enqueued[u] < MaxEnqueue
    /\ Len(queue) < MaxQueue
    /\ django.AZURE_AD_ENABLED
    /\ action \in valid_actions
    /\ users[u].enabled \/ force
    /\ queue' = Publish(queue, Message(u, action, 0))
    /\ users' = [users EXCEPT ![u].status = "pending"]
    /\ enqueued' = [enqueued EXCEPT ![u] = @ + 1]
    /\ last' = [op |-> "endpoint_sync", res |-> NoCalls]
    /\ Touch
    /\ UNCHANGED <<cfg, django, now, nextId, created, creates, attempts, cache, procs>>

\* the HTTP method of the request the task's service call would issue
task_method(action, user) ==
    CASE action \in {"create", "sync"} -> sync_method(user)
      [] action \in {"update", "disable"} -> "PATCH"
      [] action = "delete" -> "DELETE"

\* the service call the task dispatches to for its action
dispatch(action, user, e, nid) ==
    CASE action = "create"  -> sync_user_from_hris(user, TRUE, cfg, e, nid)
      [] action = "update"  -> update_user(user, cfg, e)
      [] action = "disable" -> disable_user(user, cfg, e)
      [] action = "delete"  -> delete_user(user, cfg, e)
      [] action = "sync"    -> sync_user_from_hris(user, TRUE, cfg, e, nid)

\* self.retry(...) in a worker: publishes the task again with retries + 1 and
\* raises celery.exceptions.Retry
retry(q, m) == Publish(q, Message(m.user_id, m.action, m.retries + 1))

\* what one run of sync_user_to_azure_ad leaves in the queue after a failed
\* service call: the Retry raised at line 91 inside the try block is an
\* Exception, the handler at line 102 catches it and calls self.retry again
queue_after_failure(q, m) ==
    IF m.retries < max_retries THEN retry(retry(q, m), m) ELSE q

\* faulty variant of row_after_failure: the except handler saves status synced
row_after_failure_synced(row, m) ==
    IF m.retries < max_retries THEN [row EXCEPT !.status = "synced"] ELSE row

\* the row after a failed service call: the except handler saves status failed
\* when the first self.retry raised
row_after_failure(row, m) ==
    IF m.retries < max_retries THEN [row EXCEPT !.status = "failed"] ELSE row

\* the result the run returns, or that it ended by raising Retry
outcome_after_failure(m) == IF m.retries < max_retries THEN "retry" ELSE "failure"

\* sync_user_to_azure_ad: one run of the task by a worker, for the message at
\* position i of the queue
RunTask(i, e) ==
    LET m == queue[i]
        u == m.user_id
        rest == Remove(queue, i)
    IN
    IF ~django.AZURE_AD_ENABLED \/ ~django.AZURE_AD_SYNC_ENABLED
    THEN /\ e = NoToken
         /\ queue' = rest
         /\ last' = [op |-> "task", res |-> NoCalls, msg |-> m, outcome |-> "failure"]
         /\ UNCHANGED <<users, cfg, django, now, nextId, created, creates, attempts, enqueued, modified, cache, procs>>
    ELSE /\ e \in Envs(task_method(m.action, users[u]))
         /\ \E r \in {dispatch(m.action, [users[u] EXCEPT !.status = "pending"], e, nextId)} :
            \E db \in {Commit(DB, u,
                              IF r.ok THEN r
                              ELSE [r EXCEPT !.user = row_after_failure(r.user, m)],
                              TRUE)} :
               /\ EnvUsed(r, e)
               /\ CreateSucceeded(r) => nextId \in RemoteIds
               /\ users' = db.users
               /\ Touch
               /\ nextId' = db.nextId
               /\ created' = db.created
               /\ creates' = db.creates
               /\ queue' = IF r.ok THEN rest ELSE queue_after_failure(rest, m)
               /\ Len(queue') <= MaxQueue
               /\ attempts' = [attempts EXCEPT ![u] =
                                  IF IssuedAny(r.calls) /\ @ < MaxAttempts THEN @ + 1 ELSE @]
               /\ last' = [op |-> "task", res |-> db.res, msg |-> m,
                           outcome |-> IF r.ok THEN "success" ELSE outcome_after_failure(m)]
               /\ UNCHANGED <<cfg, django, now, enqueued, cache, procs>>

\* a row as toggle_user_sync(enabled = false) leaves a new user
ToggledOff == [NewUser EXCEPT !.enabled = FALSE, !.status = "disabled"]

InitTask ==
    /\ users \in [Users -> {NewUser, ToggledOff}]
    /\ cfg \in Configs
    /\ django \in DjangoSettings
    /\ now = 1
    /\ nextId = 1
    /\ created = [u \in Users |-> {}]
    /\ creates = [u \in Users |-> 0]
    /\ last = [op |-> "init", res |-> NoCalls]
    /\ queue = << >>
    /\ attempts = [u \in Users |-> 0]
    /\ enqueued = [u \in Users |-> 0]
    /\ modified = [u \in Users |-> 1]
    /\ cache = NoEntry
    /\ procs = Idle

NextTask ==
    \/ \E u \in Users, action \in valid_actions, force \in BOOLEAN :
          SyncUserToAzure(u, action, force)
    \/ \E i \in 1..Len(queue), e \in AllEnvs :
          (IF i = 1 THEN TRUE ELSE queue[i] # queue[i - 1]) /\ RunTask(i, e)

SpecTask == InitTask /\ [][NextTask]_vars

(* ----------------------------------------------------------- the sweeps *)
\* the time a pending row may stay unmodified: timedelta(hours=1), in hours
Threshold == 1
\* the clock stops at this hour
MaxNow == 3

\* the fields of the User model (models.py, with those of AbstractBaseUser
\* and PermissionsMixin)
UserFields ==
    {"id", "password", "last_login", "is_superuser", "groups", "user_permissions",
     "email", "business_email", "first_name", "last_name", "role", "is_active",
     "is_staff", "date_joined", "phone_number", "profile_picture", "department",
     "job_title", "job_title_old", "company_name", "employee_id", "employee_type",
     "hire_date", "office_location", "is_manager", "manager",
     "azure_ad_object_id", "azure_ad_sync_enabled", "azure_ad_last_sync",
     "azure_ad_sync_status", "azure_ad_sync_error"}

\* User.objects.filter(**lookups) resolves every lookup name against the
\* model's fields; a name that is no field raises FieldError
filter_resolves(names) == names \subseteq UserFields

\* the rows of the queryset of cleanup_sync_status
stuck_users == {u \in Users : users[u].status = "pending" /\ modified[u] < now - Threshold}

\* cleanup_sync_status
CleanupSyncStatus ==
    /\ IF filter_resolves({"azure_ad_sync_status", "updated_at"})
       THEN /\ users' = [u \in Users |-> IF u \in stuck_users
                                          THEN [users[u] EXCEPT !.status = "failed"]
                                          ELSE users[u]]
            /\ last' = [op |-> "cleanup", res |-> NoCalls, outcome |-> "success"]
       ELSE /\ users' = users
            /\ last' = [op |-> "cleanup", res |-> NoCalls, outcome |-> "FieldError"]
    /\ Touch
    /\ UNCHANGED <<cfg, django, now, nextId, created, creates, queue, attempts, enqueued,
                   cache, procs>>

\* faulty variant of failed_users: the status is not looked at
failed_users_any_status == {u \in Users : users[u].enabled}

\* faulty variant of failed_users: the pending rows are taken
failed_users_pending == {u \in Users : users[u].status = "pending" /\ users[u].enabled}

\* the rows of the queryset of sync_failed_users_retry
failed_users == {u \in Users : users[u].status = "failed" /\ users[u].enabled}

\* "for user in failed_users: sync_user_to_azure_ad.delay(user.id, 'sync')"
RECURSIVE delay_all(_, _)
delay_all(q, S) ==
    IF S = {} THEN q
    ELSE delay_all(Publish(q, Message(Min(S), "sync", 0)), S \ {Min(S)})

\* sync_failed_users_retry
SyncFailedUsersRetry ==
    /\ IF ~django.AZURE_AD_ENABLED \/ ~django.AZURE_AD_SYNC_ENABLED
       THEN /\ queue' = queue
            /\ enqueued' = enqueued
            /\ last' = [op |-> "retry_sweep", res |-> NoCalls, outcome |-> "disabled"]
       ELSE /\ Len(queue) + Cardinality(failed_users) <= MaxQueue
            /\ queue' = delay_all(queue, failed_users)
            /\ enqueued' = [u \in Users |->
                               IF u \in failed_users /\ enqueued[u] < MaxEnqueue
                               THEN enqueued[u] + 1 ELSE enqueued[u]]
            /\ last' = [op |-> "retry_sweep", res |-> NoCalls, outcome |-> "success"]
    /\ UNCHANGED <<users, cfg, django, now, nextId, created, creates, attempts,
                   modified, cache, procs>>

\* the clock advances
Tick ==
    /\ now < MaxNow
    /\ now' = now + 1
    /\ last' = [op |-> "tick", res |-> NoCalls]
    /\ UNCHANGED <<users, cfg, django, nextId, created, creates, queue, attempts, enqueued,
                   modified, cache, procs>>

\* a configuration that lets a sync through
OpenSettings ==
    [enabled |-> TRUE, sync_enabled |-> TRUE,
     tenant_id |-> <<"x">>, client_id |-> <<"x">>, client_secret |-> <<"x">>]

\* a row as a failed remote create leaves a new user
FailedRow ==
    [NewUser EXCEPT !.status = "failed",
                    !.error = error_message([error |-> ERR_TRANSPORT])]

\* rows of users not linked to the remote directory
SweepRows ==
    {NewUser, ToggledOff, FailedRow,
     [FailedRow EXCEPT !.enabled = FALSE], [NewUser EXCEPT !.enabled = FALSE]}

\* the answers of the remote directory while the sweeps run: the request
\* succeeds or is answered 503
SweepEnvs == [token : {TRUE}, status : {201, 204, 503}]

InitSweep ==
    /\ users \in [Users -> SweepRows]
    /\ cfg = OpenSettings
    /\ django \in DjangoSettings
    /\ now = 1
    /\ nextId = 1
    /\ created = [u \in Users |-> {}]
    /\ creates = [u \in Users |-> 0]
    /\ last = [op |-> "init", res |-> NoCalls]
    /\ queue = << >>
    /\ attempts = [u \in Users |-> 0]
    /\ enqueued = [u \in Users |-> 0]
    /\ modified = [u \in Users |-> 1]
    /\ cache = NoEntry
    /\ procs = Idle

NextSweep ==
    \/ Tick
    \/ CleanupSyncStatus
    \/ SyncFailedUsersRetry
    \/ \E u \in Users, enabled \in BOOLEAN : ToggleUserSync(u, enabled)
    \/ \E i \in 1..Len(queue), e \in SweepEnvs :
          (IF i = 1 THEN TRUE ELSE queue[i] # queue[i - 1]) /\ RunTask(i, e)

SpecSweep == InitSweep /\ [][NextSweep]_vars

(* --------------------------------------------- the sweep under fairness *)
\* the configuration stays configured and enabled, in the database and in
\* the process settings
InitHeal ==
    /\ users \in [Users -> SweepRows]
    /\ cfg = OpenSettings
    /\ django = [AZURE_AD_ENABLED |-> TRUE, AZURE_AD_SYNC_ENABLED |-> TRUE]
    /\ now = 1
    /\ nextId = 1
    /\ created = [u \in Users |-> {}]
    /\ creates = [u \in Users |-> 0]
    /\ last = [op |-> "init", res |-> NoCalls]
    /\ queue = << >>
    /\ attempts = [u \in Users |-> 0]
    /\ enqueued = [u \in Users |-> 0]
    /\ modified = [u \in Users |-> 1]
    /\ cache = NoEntry
    /\ procs = Idle

\* a worker takes a message off the queue and runs it
Worker ==
    \E i \in 1..Len(queue), e \in SweepEnvs :
        (IF i = 1 THEN TRUE ELSE queue[i] # queue[i - 1]) /\ RunTask(i, e)

NextHeal ==
    \/ SyncFailedUsersRetry
    \/ Worker

\* the failed-retry sweep is run again and again, and the workers run the
\* messages of the queue
SpecHeal ==
    InitHeal /\ [][NextHeal]_vars /\ WF_vars(SyncFailedUsersRetry) /\ WF_vars(Worker)

(* ------------------------------ the components around the reconciler *)
\* the actions the sync endpoint is called with here
WriterActions == {"sync", "delete"}

\* the answers of the remote directory here: no token, or the request succeeds
WriterEnvs == {NoToken} \cup [token : {TRUE}, status : {201, 204}]

InitWriters ==
    /\ users = [u \in Users |-> NewUser]
    /\ cfg = OpenSettings
    /\ django = [AZURE_AD_ENABLED |-> TRUE, AZURE_AD_SYNC_ENABLED |-> TRUE]
    /\ now = 1
    /\ nextId = 1
    /\ created = [u \in Users |-> {}]
    /\ creates = [u \in Users |-> 0]
    /\ last = [op |-> "init", res |-> NoCalls]
    /\ queue = << >>
    /\ attempts = [u \in Users |-> 0]
    /\ enqueued = [u \in Users |-> 0]
    /\ modified = [u \in Users |-> 1]
    /\ cache = NoEntry
    /\ procs = Idle

\* the task wrapper, the stuck-pending sweep, the REST endpoints and the admin
\* actions (the failed-retry sweep writes no row)
NextWriters ==
    \/ \E u \in Users, action \in WriterActions, force \in BOOLEAN :
          SyncUserToAzure(u, action, force)
    \/ \E i \in 1..Len(queue), e \in WriterEnvs :
          (IF i = 1 THEN TRUE ELSE queue[i] # queue[i - 1]) /\ RunTask(i, e)
    \/ CleanupSyncStatus
    \/ \E S \in QuerySets : ResetSyncStatusToPending(S)
    \/ \E S \in QuerySets : DisableAzureAdSync(S)
    \/ \E S \in QuerySets : EnableAzureAdSync(S)
    \/ \E S \in QuerySets : RemoveAzureAdLink(S)
    \/ \E u \in Users, enabled \in BOOLEAN : ToggleUserSync(u, enabled)
    \/ \E S \in QuerySets, envs \in [Users -> WriterEnvs] : ForceSyncUsersToAzureAd(S, envs)

SpecWriters == InitWriters /\ [][NextWriters]_vars

(* ------------------------------------------- the settings and their cache *)
\* the configurations the administrator saves
CacheConfigs ==
    {DefaultSettings, OpenSettings, [OpenSettings EXCEPT !.sync_enabled = FALSE]}

\* a cache entry holding the settings object s
Hit(s) == [hit |-> TRUE, value |-> s]

Frame == UNCHANGED <<users, django, now, nextId, created, creates, queue, attempts,
                     enqueued, modified>>

\* AzureADSettings.save(), first statement: cache.delete('azure_ad_settings')
SaveDelete(s) ==
    /\ procs["w"].pc = "idle"
    /\ s # cfg
    /\ cache' = NoEntry
    /\ procs' = [procs EXCEPT !["w"] = [pc |-> "deleted", value |-> s]]
    /\ last' = [op |-> "save_delete", res |-> NoCalls]
    /\ UNCHANGED cfg
    /\ Frame

\* AzureADSettings.save(), second statement: super().save() writes the row
SaveWrite ==
    /\ procs["w"].pc = "deleted"
    /\ cfg' = procs["w"].value
    /\ procs' = [procs EXCEPT !["w"] = [pc |-> "idle"]]
    /\ last' = [op |-> "save_write", res |-> NoCalls]
    /\ UNCHANGED cache
    /\ Frame

\* get_settings(), cache.get('azure_ad_settings'): a hit is returned, a miss
\* goes on to the database
CacheGet(p) ==
    /\ procs[p].pc = "idle"
    /\ IF cache.hit
       THEN /\ procs' = procs
            /\ last' = [op |-> "get_settings", res |-> NoCalls, proc |-> p,
                        hit |-> TRUE, returned |-> cache.value]
       ELSE /\ procs' = [procs EXCEPT ![p] = [pc |-> "missed"]]
            /\ last' = [op |-> "cache_miss", res |-> NoCalls, proc |-> p]
    /\ UNCHANGED <<cfg, cache>>
    /\ Frame

\* get_settings(), cls.objects.get_or_create(id=1, ...): the row is read
GetOrCreate(p) ==
    /\ procs[p].pc = "missed"
    /\ procs' = [procs EXCEPT ![p] = [pc |-> "loaded", value |-> cfg]]
    /\ last' = [op |-> "get_or_create", res |-> NoCalls, proc |-> p]
    /\ UNCHANGED <<cfg, cache>>
    /\ Frame

\* get_settings(), cache.set('azure_ad_settings', settings, 300) and return
CacheSet(p) ==
    /\ procs[p].pc = "loaded"
    /\ cache' = Hit(procs[p].value)
    /\ procs' = [procs EXCEPT ![p] = [pc |-> "idle"]]
    /\ last' = [op |-> "get_settings", res |-> NoCalls, proc |-> p,
                hit |-> FALSE, returned |-> procs[p].value]
    /\ UNCHANGED cfg
    /\ Frame

\* the entry expires after its 300 seconds
CacheExpire ==
    /\ cache.hit
    /\ cache' = NoEntry
    /\ last' = [op |-> "expire", res |-> NoCalls]
    /\ UNCHANGED <<cfg, procs>>
    /\ Frame

NextCache ==
    \/ \E s \in CacheConfigs : SaveDelete(s)
    \/ SaveWrite
    \/ \E p \in Readers : CacheGet(p)
    \/ \E p \in Readers : GetOrCreate(p)
    \/ \E p \in Readers : CacheSet(p)
    \/ CacheExpire

SpecCache == Init /\ [][NextCache]_vars

(* ------------------------------------------------ the temporary password *)
\* the longest password length the administrator configures here
MaxLen == 4

\* characters of string.ascii_lowercase, string.ascii_uppercase and
\* string.digits, one of each
Lowercase == {"a"}
Uppercase == {"A"}
Digits == {"1"}
\* alphabet = string.ascii_letters + string.digits + "!@#$%^&*"
Alphabet ==
    LET Symbols == {"!"} IN
    Lowercase \cup Uppercase \cup Digits \cup Symbols

\* any(c in class for c in password)
AnyIn(password, class) == \E i \in 1..Len(password) : password[i] \in class

\* the length used: "if not length: length = settings.AZURE_AD_DEFAULT_PASSWORD_LENGTH"
password_length(length) ==
    LET AZURE_AD_DEFAULT_PASSWORD_LENGTH == 12 IN
    IF length = 0 THEN AZURE_AD_DEFAULT_PASSWORD_LENGTH ELSE length

\* AzureADService._generate_secure_password: draws are the characters
\* secrets.choice(alphabet) returns, one per position; lo, up and di are the
\* characters secrets.choice returns for the three repairs, which run in the
\* order of the code
_generate_secure_password(draws, lo, up, di) ==
    LET \* password[:-1] + c
        ReplaceLast(password, c) == SubSeq(password, 1, Len(password) - 1) \o <<c>>
        ensure_lower(password) ==
            IF ~AnyIn(password, Lowercase) THEN ReplaceLast(password, lo) ELSE password
        ensure_upper(password) ==
            IF ~AnyIn(password, Uppercase) THEN ReplaceLast(password, up) ELSE password
        ensure_digit(password) ==
            IF ~AnyIn(password, Digits) THEN ReplaceLast(password, di) ELSE password
    IN  ensure_digit(ensure_upper(ensure_lower(draws)))

\* one call of _generate_secure_password(length)
GenerateSecurePassword(length, draws) ==
    /\ \E lo \in Lowercase, up \in Uppercase, di \in Digits :
          last' = [op |-> "password", res |-> NoCalls, length |-> length,
                   draws |-> draws,
                   password |-> _generate_secure_password(draws, lo, up, di)]
    /\ UNCHANGED <<users, cfg, django, now, nextId, created, creates, queue, attempts,
                   enqueued, modified, cache, procs>>

(* ------------------------------------------------- the request payloads *)
\* a value of a payload key: None, or a value
Null == [null |-> TRUE]
Val(v) == [null |-> FALSE, value |-> v]

\* no keys
NoKeys == [k \in {} |-> Null]

\* the longest title the remote directory takes
JobTitleLimit == 128

\* "if user.job_title and len(user.job_title.strip()) > 0: ...": the keys the
\* block adds, or the AttributeError of the call of strip on the instance.
\* user.job_title is a foreign key to employees.JobTitle: None or an instance
\* with the attributes of that class (its fields, properties and methods);
\* there is no strip among them
job_title_entry(jt) ==
    LET JobTitleAttrs ==
            {"id", "title", "description", "department", "level", "min_salary",
             "max_salary", "required_skills", "is_active", "created_at", "updated_at",
             "employee_count", "salary_range_display", "users", "save", "delete", "pk"}
        job_title == strip(jt.title)
    IN
    IF ~jt.exists THEN [raised |-> FALSE, keys |-> NoKeys]
    ELSE IF "strip" \notin JobTitleAttrs
    THEN [raised |-> TRUE, exception |-> "AttributeError"]
    ELSE IF Len(job_title) > 0
    THEN [raised |-> FALSE,
          keys |-> ("jobTitle" :> Val(IF Len(job_title) <= JobTitleLimit
                                      THEN job_title
                                      ELSE SubSeq(job_title, 1, JobTitleLimit)))]
    ELSE [raised |-> FALSE, keys |-> NoKeys]

\* f"https://graph.microsoft.com/v1.0/users/{user.manager.azure_ad_object_id}"
manager_url(rid) == <<"https://graph.microsoft.com/v1.0/users/", rid>>

\* faulty variant of manager_entry: a manager that is not linked is sent as null
manager_entry_null(kind, m) ==
    IF m.exists /\ m.remote_id # NULL
    THEN ("manager@odata.bind" :> Val(manager_url(m.remote_id)))
    ELSE IF kind = "update" THEN ("manager@odata.bind" :> Null)
    ELSE NoKeys

\* "if user.manager and user.manager.azure_ad_object_id: ... elif ...": the
\* keys the manager block of create_user (kind "create") and of update_user
\* (kind "update") adds
manager_entry(kind, m) ==
    IF m.exists /\ m.remote_id # NULL
    THEN ("manager@odata.bind" :> Val(manager_url(m.remote_id)))
    ELSE IF m.exists /\ m.remote_id = NULL THEN NoKeys
    ELSE IF kind = "update" /\ ~m.exists THEN ("manager@odata.bind" :> Null)
    ELSE NoKeys

\* azure_user_data of create_user and update_data of update_user, as far as
\* the job title and the manager go
build_payload(kind, profile) ==
    LET jt == job_title_entry(profile.job_title) IN
    IF jt.raised THEN jt
    ELSE [raised |-> FALSE,
          payload |-> ("accountEnabled" :> Val(TRUE)) @@ jt.keys
                         @@ manager_entry(kind, profile.manager)]

\* the job title and the manager of a user: each is None or a row, the job
\* title with its title, the manager with its object id
Profiles ==
    LET Titles == {<<"t">>, <<" ", "t", " ">>, [i \in 1..(JobTitleLimit + 2) |-> "t"]}
        NoJobTitle == [exists |-> FALSE]
        JobTitleObj(t) == [exists |-> TRUE, title |-> t]
        NoManager == [exists |-> FALSE]
        Manager(rid) == [exists |-> TRUE, remote_id |-> rid]
    IN
    [job_title : {NoJobTitle} \cup {JobTitleObj(t) : t \in Titles},
     manager : {NoManager, Manager(NULL)} \cup {Manager(i) : i \in RemoteIds}]

\* create_user or update_user builds the payload of its request
BuildPayload(kind, profile) ==
    /\ last' = [op |-> "payload", res |-> NoCalls, kind |-> kind, profile |-> profile,
                out |-> build_payload(kind, profile)]
    /\ UNCHANGED <<users, cfg, django, now, nextId, created, creates, queue, attempts,
                   enqueued, modified, cache, procs>>

\* the draws for a password: every sequence over the alphabet for a
\* configured length, and for the default length the draws that repeat one
\* character
NextFunctions ==
    \/ \E length \in 0..MaxLen :
          \E draws \in (IF length = 0
                        THEN {[i \in 1..password_length(length) |-> c] : c \in Alphabet}
                        ELSE [1..length -> Alphabet]) :
             GenerateSecurePassword(length, draws)
    \/ \E kind \in {"create", "update"}, profile \in Profiles : BuildPayload(kind, profile)

SpecFunctions == Init /\ [][NextFunctions]_vars

(* ------------------------------------- the endpoint and the workers, step by step *)
\* the processes: the request handler of the REST endpoint and two Celery
\* workers; each holds the User object it loaded
Workers == {"w1", "w2"}
Handlers == {"api"}

\* user.save(): every column of the row is written from the object
save(p) == [users EXCEPT ![procs[p].msg.user_id] = procs[p].user]

\* sync_user_to_azure: the checks, and get_object_or_404(User, id=user_id);
\* the endpoint accepts MaxCalls requests before the run ends
EndpointLoad(p, u, action, force) ==
    LET MaxCalls == MaxEnqueue + 1 IN
    /\ procs[p].pc = "idle"
    /\ enqueued[u] < MaxCalls
    /\ django.AZURE_AD_ENABLED
    /\ action \in valid_actions
    /\ users[u].enabled \/ force
    /\ procs' = [procs EXCEPT ![p] = [pc |-> "loaded", user |-> users[u],
                                       msg |-> Message(u, action, 0)]]
    /\ last' = [op |-> "step", res |-> NoCalls]
    /\ UNCHANGED <<users, cfg, django, now, nextId, created, creates, queue, attempts,
                   enqueued, modified, cache>>

\* sync_user_to_azure: sync_user_to_azure_ad.delay(user_id, action)
EndpointDelay(p) ==
    /\ procs[p].pc = "loaded"
    /\ Len(queue) < MaxQueue
    /\ queue' = Publish(queue, procs[p].msg)
    /\ enqueued' = [enqueued EXCEPT ![procs[p].msg.user_id] = @ + 1]
    /\ procs' = [procs EXCEPT ![p].pc = "queued", ![p].user.status = "pending"]
    /\ last' = [op |-> "step", res |-> NoCalls]
    /\ UNCHANGED <<users, cfg, django, now, nextId, created, creates, attempts, modified,
                   cache>>

\* sync_user_to_azure: user.azure_ad_sync_status = 'pending'; user.save()
EndpointSave(p) ==
    /\ procs[p].pc = "queued"
    /\ users' = save(p)
    /\ Touch
    /\ procs' = [procs EXCEPT ![p] = [pc |-> "idle"]]
    /\ last' = [op |-> "endpoint_sync", res |-> NoCalls]
    /\ UNCHANGED <<cfg, django, now, nextId, created, creates, queue, attempts, enqueued,
                   cache>>

\* sync_user_to_azure_ad: a worker takes the message at position i, passes
\* the settings check and loads the row: User.objects.get(id=user_id)
TaskLoad(p, i) ==
    LET m == queue[i] IN
    /\ procs[p].pc = "idle"
    /\ queue' = Remove(queue, i)
    /\ IF ~django.AZURE_AD_ENABLED \/ ~django.AZURE_AD_SYNC_ENABLED
       THEN /\ procs' = procs
            /\ last' = [op |-> "task", res |-> NoCalls, msg |-> m, outcome |-> "failure"]
       ELSE /\ procs' = [procs EXCEPT ![p] = [pc |-> "loaded", msg |-> m,
                                               user |-> [users[m.user_id] EXCEPT
                                                            !.status = "pending"]]]
            /\ last' = [op |-> "step", res |-> NoCalls]
    /\ UNCHANGED <<users, cfg, django, now, nextId, created, creates, attempts, enqueued,
                   modified, cache>>

\* sync_user_to_azure_ad: user.azure_ad_sync_status = 'pending'; user.save()
TaskPending(p) ==
    /\ procs[p].pc = "loaded"
    /\ users' = save(p)
    /\ Touch
    /\ procs' = [procs EXCEPT ![p].pc = "pending"]
    /\ last' = [op |-> "step", res |-> NoCalls]
    /\ UNCHANGED <<cfg, django, now, nextId, created, creates, queue, attempts, enqueued,
                   cache>>

\* the service call of the task up to the answer of the remote directory:
\* the branch is chosen on the object the worker loaded, the request is sent,
\* and the object is given its new fields. The remote directory is out of
\* service (503) for the first request about a target at most
TaskRequest(p, e) ==
    LET m == procs[p].msg
        u == m.user_id
        Outage == e.status = 503
    IN
    /\ procs[p].pc = "pending"
    /\ e \in Envs(task_method(m.action, procs[p].user))
    /\ Outage => attempts[u] = 0
    /\ \E r \in {dispatch(m.action, procs[p].user, e, nextId)} :
       \E db \in {Commit(DB, u, r, TRUE)} :
          /\ EnvUsed(r, e)
          /\ CreateSucceeded(r) => nextId \in RemoteIds
          /\ nextId' = db.nextId
          /\ created' = db.created
          /\ creates' = db.creates
          /\ attempts' = [attempts EXCEPT ![u] =
                             IF IssuedAny(r.calls) /\ @ < MaxAttempts THEN @ + 1 ELSE @]
          /\ procs' = [procs EXCEPT ![p] = [pc |-> "answered", msg |-> m, user |-> r.user,
                                             ok |-> r.ok, wrote |-> IssuedAny(r.calls),
                                             res |-> db.res]]
    /\ last' = [op |-> "step", res |-> NoCalls]
    /\ UNCHANGED <<users, cfg, django, now, queue, enqueued, modified, cache>>

\* the service call's user.save() and the end of the try block: the result
\* is returned, or self.retry publishes the message again and raises Retry
TaskSave(p) ==
    LET m == procs[p].msg
        again == ~procs[p].ok /\ m.retries < max_retries
    IN
    /\ procs[p].pc = "answered"
    /\ users' = IF procs[p].wrote THEN save(p) ELSE users
    /\ Touch
    /\ queue' = IF again THEN retry(queue, m) ELSE queue
    /\ Len(queue') <= MaxQueue
    /\ procs' = [procs EXCEPT ![p] =
                    IF again THEN [pc |-> "handler", msg |-> m,
                                   user |-> [procs[p].user EXCEPT !.status = "failed"],
                                   res |-> procs[p].res]
                    ELSE [pc |-> "idle"]]
    /\ last' = IF again THEN [op |-> "step", res |-> NoCalls]
               ELSE [op |-> "task", res |-> procs[p].res, msg |-> m,
                     outcome |-> IF procs[p].ok THEN "success" ELSE "failure"]
    /\ UNCHANGED <<cfg, django, now, nextId, created, creates, attempts, enqueued, cache>>

\* the except handler of the task, entered by the Retry raised in the try
\* block: status failed is saved and self.retry is called once more
TaskHandler(p) ==
    LET m == procs[p].msg IN
    /\ procs[p].pc = "handler"
    /\ users' = save(p)
    /\ Touch
    /\ queue' = retry(queue, m)
    /\ Len(queue') <= MaxQueue
    /\ procs' = [procs EXCEPT ![p] = [pc |-> "idle"]]
    /\ last' = [op |-> "task", res |-> procs[p].res, msg |-> m, outcome |-> "retry"]
    /\ UNCHANGED <<cfg, django, now, nextId, created, creates, attempts, enqueued, cache>>

InitRace ==
    /\ users = [u \in Users |-> NewUser]
    /\ cfg = OpenSettings
    /\ django = [AZURE_AD_ENABLED |-> TRUE, AZURE_AD_SYNC_ENABLED |-> TRUE]
    /\ now = 1
    /\ nextId = 1
    /\ created = [u \in Users |-> {}]
    /\ creates = [u \in Users |-> 0]
    /\ last = [op |-> "init", res |-> NoCalls]
    /\ queue = << >>
    /\ attempts = [u \in Users |-> 0]
    /\ enqueued = [u \in Users |-> 0]
    /\ modified = [u \in Users |-> 1]
    /\ cache = NoEntry
    /\ procs = [p \in Handlers \cup Workers |-> [pc |-> "idle"]]

NextRace ==
    \/ \E p \in Handlers, u \in Users : EndpointLoad(p, u, "sync", FALSE)
    \/ \E p \in Handlers : EndpointDelay(p)
    \/ \E p \in Handlers : EndpointSave(p)
    \/ \E p \in Workers, i \in 1..Len(queue) :
          (IF i = 1 THEN TRUE ELSE queue[i] # queue[i - 1]) /\ TaskLoad(p, i)
    \/ \E p \in Workers : TaskPending(p)
    \/ \E p \in Workers, e \in SweepEnvs : TaskRequest(p, e)
    \/ \E p \in Workers : TaskSave(p)
    \/ \E p \in Workers : TaskHandler(p)

SpecRace == InitRace /\ [][NextRace]_vars

(* ================================================================ claims *)
\* the operations that run the create-or-update flow (sync_user_from_hris)
SyncOps == {"sync", "admin_sync", "admin_force_sync"}

\* the log entry of the latest operation for user u, when it called the service
CalledFor(u) == last.res[u].called

ResultError(c) == Get(c.result, "error", EmptyStr)

\* the configuration lets a create or update through to the remote directory
GatesOpen(s) == is_configured(s) /\ s.enabled /\ s.sync_enabled

(* ------------------------------------------------------------------- C1 *)
\* C1: when a sync of a target without remote_id passes the gating checks,
\* a successful remote create leaves remote_id non-null, equal to the id of
\* the create response, and status synced; a failed one leaves remote_id null
\* and status failed.
C1_Step(u) ==
    LET c == last'.res[u] IN
    (last'.op \in SyncOps /\ c.called /\ users[u].remote_id = NULL /\ IssuedAny(c.calls))
       => IF c.ok
          THEN /\ users'[u].remote_id # NULL
               /\ users'[u].remote_id = c.result.azure_ad_object_id
               /\ users'[u].remote_id \in created'[u] \ created[u]
               /\ users'[u].status = "synced"
          ELSE /\ users'[u].remote_id = NULL
               /\ users'[u].status = "failed"

C1_CreateOutcome == [][\A u \in Users : C1_Step(u)]_vars

\* a sync whose remote create succeeded has just linked the target
C1_Witness ==
    \E u \in Users :
        /\ last.op = "sync" /\ CalledFor(u) /\ last.res[u].ok
        /\ IssuedGraph(last.res[u].calls, "POST")
        /\ users[u].status = "synced" /\ users[u].remote_id # NULL

(* ------------------------------------------------------------------- C2 *)
\* C2: a sync of a target with a non-null remote_id (the update branch)
\* leaves remote_id as it was, whether the remote update succeeds, fails or
\* the call is refused by a gating check.
C2_Step(u) ==
    (last'.op \in SyncOps \cup {"update"} /\ last'.res[u].called /\ users[u].remote_id # NULL)
       => users'[u].remote_id = users[u].remote_id

C2_UpdateKeepsRemoteId == [][\A u \in Users : C2_Step(u)]_vars

\* a sync whose remote update failed, the target still linked
C2_Witness ==
    \E u \in Users :
        /\ last.op = "sync" /\ CalledFor(u) /\ ~last.res[u].ok
        /\ IssuedGraph(last.res[u].calls, "PATCH")
        /\ users[u].status = "failed" /\ users[u].remote_id # NULL

(* ------------------------------------------------------------------- C3 *)
\* C3: a sync of a target that is synced and linked never issues a remote
\* create: when the gates are open (and the target enabled, or the call
\* forced) it goes to the remote directory, and the
\* request it sends there is PATCH users/{remote_id}; so between unlinks and
\* deletes at most one remote create succeeds per target.
C3_Step(u) ==
    LET c == last'.res[u] IN
    /\ (last'.op \in SyncOps /\ c.called /\ users[u].remote_id # NULL
          /\ users[u].status = "synced")
         => /\ ~IssuedGraph(c.calls, "POST")
            /\ (GatesOpen(cfg) /\ (users[u].enabled \/ c.force)) => IssuedAny(c.calls)
            /\ \A i \in 1..Len(c.calls) :
                  c.calls[i].kind = "graph" =>
                      c.calls[i] = GraphCall("PATCH", <<"users", users[u].remote_id>>)
    /\ creates'[u] <= 1

C3_SecondSyncUpdates == [][\A u \in Users : C3_Step(u)]_vars

\* a sync of an already created target that sent its PATCH
C3_Witness ==
    \E u \in Users :
        /\ last.op = "sync" /\ CalledFor(u) /\ last.res[u].ok
        /\ IssuedGraph(last.res[u].calls, "PATCH")
        /\ creates[u] = 1

(* ------------------------------------------------------------------- C4 *)
\* C4: sync(target, force = false) on a target with enabled = false returns
\* the error "sync is disabled for this user", issues no remote call and
\* changes no field of the target; with force = true the call is not refused
\* for that reason and goes on to the configuration checks and the
\* create-or-update branch.
C4_Step(u) ==
    LET c == last'.res[u] IN
    (last'.op = "sync" /\ c.called /\ ~users[u].enabled)
       => IF ~c.force
          THEN /\ ~c.ok
               /\ ResultError(c) = ERR_USER_DISABLED
               /\ c.calls = << >>
               /\ users'[u] = users[u]
          ELSE /\ ResultError(c) # ERR_USER_DISABLED
               /\ ~is_configured(cfg) => ResultError(c) = ERR_NOT_CONFIGURED
               /\ GatesOpen(cfg) => IssuedAny(c.calls)

C4_EntityGate == [][\A u \in Users : C4_Step(u)]_vars

\* an unforced sync has just been refused for a target with sync switched off
C4_Witness ==
    \E u \in Users :
        /\ last.op = "sync" /\ CalledFor(u) /\ ~last.res[u].force
        /\ ResultError(last.res[u]) = ERR_USER_DISABLED
        /\ ~users[u].enabled

(* ------------------------------------------------------------------- C5 *)
\* C5: while is_configured is false, a sync that passes the entity gate
\* returns "not configured", makes neither a token request nor a Graph
\* request, and leaves the target as it was.
C5_Step(u) ==
    LET c == last'.res[u] IN
    (last'.op = "sync" /\ c.called /\ ~is_configured(cfg) /\ (users[u].enabled \/ c.force))
       => /\ ~c.ok
          /\ ResultError(c) = ERR_NOT_CONFIGURED
          /\ c.calls = << >>
          /\ users'[u] = users[u]

C5_NotConfigured == [][\A u \in Users : C5_Step(u)]_vars

\* a sync of a linked target has just been refused as not configured
C5_Witness ==
    \E u \in Users :
        /\ last.op = "sync" /\ CalledFor(u)
        /\ ResultError(last.res[u]) = ERR_NOT_CONFIGURED
        /\ users[u].remote_id # NULL
        /\ ~is_configured(cfg)

(* ------------------------------------------------------------------- C6 *)
\* tenant id, client id and client secret are all non-empty after trimming
CredentialsPresent(s) ==
    /\ Len(strip(s.tenant_id)) > 0
    /\ Len(strip(s.client_id)) > 0
    /\ Len(strip(s.client_secret)) > 0

\* C6: with all three credentials present, a configuration with
\* enabled = false or sync_enabled = false makes a sync (that passes the
\* entity gate) return "sync is disabled" without a remote call, and "not
\* configured" is returned only when a credential is missing.
C6_GatingKinds ==
    \A u \in Users :
        (last.op = "sync" /\ CalledFor(u) /\ ResultError(last.res[u]) # ERR_USER_DISABLED)
           => /\ (CredentialsPresent(cfg) /\ (~cfg.enabled \/ ~cfg.sync_enabled))
                    => /\ ResultError(last.res[u]) = ERR_SYNC_DISABLED
                       /\ last.res[u].calls = << >>
              /\ ResultError(last.res[u]) = ERR_NOT_CONFIGURED => ~CredentialsPresent(cfg)

(* ------------------------------------------------------------------- C7 *)
\* C7: a sync of a target whose status is disabled is refused: it issues no
\* remote call, whatever the target's enabled flag and the force argument.
C7_Step(u) ==
    (last'.op = "sync" /\ last'.res[u].called /\ users[u].status = "disabled")
       => /\ ~last'.res[u].ok
          /\ ~IssuedAny(last'.res[u].calls)

C7_DisabledRefused == [][\A u \in Users : C7_Step(u)]_vars

(* ------------------------------------------------------------------- C8 *)
\* C8 as stated: remote_id is non-null if and only if a remote create for the
\* target has succeeded at least once, and a stored remote_id is an id that a
\* create response returned for the target.
C8_RemoteIdIffEverCreated ==
    \A u \in Users :
        /\ (users[u].remote_id # NULL) <=> (created[u] # {})
        /\ users[u].remote_id # NULL => users[u].remote_id \in created[u]

\* C8 amended: remote_id is non-null if and only if a remote create for the
\* target has succeeded since its last unlink or successful remote delete,
\* and a stored remote_id is an id that a create response returned for the
\* target.
C8_RemoteIdIffCreatedSince ==
    \A u \in Users :
        /\ (users[u].remote_id # NULL) <=> (creates[u] >= 1)
        /\ users[u].remote_id # NULL => users[u].remote_id \in created[u]

\* a successful remote delete has just cleared the link of a created target
C8_Witness ==
    \E u \in Users :
        /\ last.op = "delete" /\ CalledFor(u) /\ last.res[u].ok
        /\ users[u].remote_id = NULL
        /\ created[u] # {}

(* ------------------------------------------------------------------- C9 *)
\* the failures worth retrying: a transport error, HTTP 429 or 5xx
HttpError(code) == <<"HTTP ">> \o Decimal(code)
Transient(c) ==
    /\ c.called
    /\ ~c.ok
    /\ \/ ResultError(c) = ERR_TRANSPORT
       \/ \E code \in FailureCodes :
             (code = 429 \/ code >= 500) /\ ResultError(c) = HttpError(code)

\* C9: a run of the sync task schedules a retry only after a transient
\* failure; after any other failure it returns the failure at once.
C9_RetryOnlyTransient ==
    (last.op = "task" /\ last.outcome = "retry") => Transient(last.res[last.msg.user_id])

(* ------------------------------------------------------------------ C10 *)
\* C10: when every attempt made for a target has failed (no remote create
\* has succeeded for it), the attempts do not exceed the permitted attempts
\* (one run and max_retries retries) of the sync tasks submitted for it.
C10_BoundedAttempts ==
    \A u \in Users :
        (created[u] = {} /\ users[u].remote_id = NULL)
           => attempts[u] <= enqueued[u] * (max_retries + 1)

(* ------------------------------------------------------------------ C11 *)
\* C11: while the sync task still has attempts left, a transient failure of
\* an attempt does not put the target in status failed: after a run that
\* ended by scheduling a retry the target's status is not failed.
C11_NoPrematureFailed ==
    \A u \in Users :
        (last.op = "task" /\ last.msg.user_id = u /\ last.outcome = "retry"
           /\ Transient(last.res[u]))
           => users[u].status # "failed"

(* ------------------------------------------------------------------ C12 *)
\* C12: after a run of the stuck-pending sweep every target that was pending
\* and last modified more than the threshold before the sweep has status
\* failed, and every other target is as it was.
C12_Step(u) ==
    last'.op = "cleanup"
       => IF users[u].status = "pending" /\ now - modified[u] > Threshold
          THEN users'[u].status = "failed"
          ELSE users'[u] = users[u]

C12_StuckPendingSweep == [][\A u \in Users : C12_Step(u)]_vars

(* ------------------------------------------------------------------ C13 *)
\* the number of copies of message m in the queue q
Count(q, m) == Cardinality({i \in 1..Len(q) : q[i] = m})

\* the messages that can be in the queue for user u
MessagesOf(u) ==
    {Message(u, a, n) : a \in valid_actions, n \in 0..(max_retries + 1)}

\* one run of the failed-retry sweep has enqueued one 'sync' task for user u
\* and nothing else for it
EnqueuedSyncFor(u) ==
    \A m \in MessagesOf(u) :
        Count(queue', m) = Count(queue, m) + (IF m = Message(u, "sync", 0) THEN 1 ELSE 0)

\* one run of the failed-retry sweep has enqueued nothing for user u
EnqueuedNothingFor(u) == \A m \in MessagesOf(u) : Count(queue', m) = Count(queue, m)

\* C13 as stated: one run of the failed-retry sweep enqueues a 'sync' task
\* for every target that is failed and enabled and for no other target, and
\* changes no target.
C13_StepAsStated(u) ==
    last'.op = "retry_sweep"
       => /\ IF users[u].status = "failed" /\ users[u].enabled
             THEN EnqueuedSyncFor(u) ELSE EnqueuedNothingFor(u)
          /\ users'[u] = users[u]

C13_Step(u) ==
    last'.op = "retry_sweep"
       => /\ IF django.AZURE_AD_ENABLED /\ django.AZURE_AD_SYNC_ENABLED
                /\ users[u].status = "failed" /\ users[u].enabled
             THEN EnqueuedSyncFor(u) ELSE EnqueuedNothingFor(u)
          /\ users'[u] = users[u]

RemoteUp == ~(last.op = "task" /\ last.outcome # "success")

C15_StepAsStated(u) ==
    LET c == last'.res[u] IN
    (last'.op \in {"disable", "delete"} /\ c.called /\ users[u].remote_id = NULL)
       => /\ ~c.ok
          /\ ResultError(c) = ERR_NOT_LINKED
          /\ c.calls = << >>
          /\ users'[u] = users[u]

C15_NotLinkedAlways == [][\A u \in Users : C15_StepAsStated(u)]_vars

\* C15 amended: disable and delete on a target whose remote_id is null fail
\* without a remote call and leave the target as it was; the error is
\* NotLinked when the configuration is configured, enabled and sync-enabled,
\* and the configuration error (not configured, sync disabled) otherwise.
C15_Step(u) ==
    LET c == last'.res[u] IN
    (last'.op \in {"disable", "delete"} /\ c.called /\ users[u].remote_id = NULL)
       => /\ ~c.ok
          /\ ResultError(c) = (IF ~is_configured(cfg) THEN ERR_NOT_CONFIGURED
                               ELSE IF ~cfg.enabled \/ ~cfg.sync_enabled THEN ERR_SYNC_DISABLED
                               ELSE ERR_NOT_LINKED)
          /\ c.calls = << >>
          /\ users'[u] = users[u]

C15_NotLinked == [][\A u \in Users : C15_Step(u)]_vars

\* a delete of an unlinked target has just been refused as not linked
C15_Witness ==
    \E u \in Users :
        /\ last.op = "delete" /\ CalledFor(u)
        /\ ResultError(last.res[u]) = ERR_NOT_LINKED
        /\ users[u].remote_id = NULL
        /\ GatesOpen(cfg)

(* ------------------------------------------------------------------ C16 *)
\* the text contains the text sub
Contains(text, sub) ==
    \E i \in 1..(Len(text) - Len(sub) + 1) : SubSeq(text, i, i + Len(sub) - 1) = sub

\* C16: when the remote update of a linked target is rejected with an HTTP
\* error status s, the target is failed afterwards, its remote_id is as it
\* was, and its last error is the text "{error}: {details}" of the result,
\* which contains the decimal digits of s.
C16_Step(u) ==
    LET c == last'.res[u] IN
    \A s \in FailureCodes :
        (last'.op \in SyncOps \cup {"update"} /\ c.called /\ users[u].remote_id # NULL
           /\ IssuedGraph(c.calls, "PATCH") /\ ResultError(c) = HttpError(s))
           => /\ users'[u].status = "failed"
              /\ users'[u].remote_id = users[u].remote_id
              /\ users'[u].error = c.result.error \o <<": ">> \o c.result.details
              /\ Contains(users'[u].error, Decimal(s))

C16_UpdateRejected == [][\A u \in Users : C16_Step(u)]_vars

\* an update of a linked target has just been rejected with HTTP 403
C16_Witness ==
    \E u \in Users :
        /\ last.op = "update" /\ CalledFor(u) /\ ~last.res[u].ok
        /\ ResultError(last.res[u]) = HttpError(403)
        /\ users[u].remote_id # NULL /\ users[u].status = "failed"
        /\ Contains(users[u].error, <<"4", "0", "3">>)

(* ------------------------------------------------------------------ C17 *)
\* C17: unlinking a target sets its remote_id to null and its status to
\* pending, leaving its sync state that of a new target; the sync that
\* follows goes the create way: it sends no update, the request it sends is
\* POST users, and it is sent whenever the gates are open.
C17_Step(u) ==
    LET c == last'.res[u] IN
    /\ (last'.op = "unlink" /\ u \in last'.ids)
          => /\ users'[u].remote_id = NULL
             /\ users'[u].status = "pending"
             /\ users'[u] = [NewUser EXCEPT !.enabled = users[u].enabled]
    /\ (last.op = "unlink" /\ u \in last.ids /\ last'.op \in SyncOps /\ c.called)
          => /\ ~IssuedGraph(c.calls, "PATCH")
             /\ \A i \in 1..Len(c.calls) :
                   c.calls[i].kind = "graph" => c.calls[i] = GraphCall("POST", <<"users">>)
             /\ (GatesOpen(cfg) /\ (users[u].enabled \/ c.force)) => IssuedAny(c.calls)
             /\ c.ok => users'[u].remote_id \in created'[u] \ created[u]

C17_UnlinkThenCreate == [][\A u \in Users : C17_Step(u)]_vars

\* a linked target has just been unlinked
C17_Witness ==
    \E u \in Users :
        /\ last.op = "unlink" /\ u \in last.ids
        /\ created[u] # {}
        /\ users[u].remote_id = NULL /\ users[u].status = "pending"

(* ------------------------------------------------------------------ C18 *)
\* the errors of the configuration gates and of the entity gate
GatingErrors == {ERR_NOT_CONFIGURED, ERR_SYNC_DISABLED, ERR_USER_DISABLED}

\* C18: a run of the sync task whose service call ends in a configuration or
\* entity-level gating error leaves the target's status, remote_id,
\* last_sync_at and last_error as they were.
C18_Step(u) ==
    LET c == last'.res[u] IN
    (last'.op = "task" /\ last'.msg.user_id = u /\ c.called
       /\ ~c.ok /\ ResultError(c) \in GatingErrors)
       => users'[u] = users[u]

C18_GatingLeavesState == [][\A u \in Users : C18_Step(u)]_vars

(* ------------------------------------------------------------------ C19 *)
\* the sync-state fields of a row
SyncState(row) == <<row.status, row.remote_id, row.last_sync, row.error>>

\* C19 as stated: a step that makes no reconciler call for a target (a step
\* of the task wrapper, a sweep, a REST endpoint or an admin action) changes
\* none of its status, remote_id, last_sync_at and last_error.
C19_StepAsStated(u) ==
    ~last'.res[u].called => SyncState(users'[u]) = SyncState(users[u])

C19_Step(u) ==
    LET c == last'.res[u]
        old == users[u]
        new == users'[u]
    IN
    /\ (new.remote_id # old.remote_id /\ new.remote_id # NULL)
          => c.called /\ CreateSucceeded(c) /\ new.remote_id = c.result.azure_ad_object_id
    /\ (new.status = "synced" /\ old.status # "synced") => c.called /\ c.ok
    /\ (new.last_sync # old.last_sync /\ new.last_sync # NULL) => c.called /\ c.ok
    /\ (new.error # old.error /\ new.error # EmptyStr)
          => c.called /\ ~c.ok /\ IssuedAny(c.calls)
    /\ ~c.called
          => /\ new.status \in {old.status, "pending", "disabled"}
             /\ new.remote_id # old.remote_id => last'.op = "unlink" /\ new.remote_id = NULL
             /\ new.last_sync # old.last_sync => last'.op = "unlink" /\ new.last_sync = NULL
             /\ new.error # old.error => last'.op \in {"unlink", "reset"}
    /\ (c.called /\ c.calls = << >>)
          => /\ new.remote_id = old.remote_id
             /\ new.last_sync = old.last_sync
             /\ new.error = old.error
             /\ new.status \in {old.status, "pending", "failed"}

C20_Step ==
    (last'.op = "get_settings" /\ last'.hit /\ procs["w"].pc = "idle")
       => last'.returned = cfg

C20_CacheCoherent == [][C20_Step]_vars

(* ------------------------------------------------------------------ C21 *)
\* C21: for a configured length n of at least three (the default length when
\* none is configured) the generated password has exactly n characters and
\* contains a lowercase letter, an uppercase letter and a digit.
C21_PasswordClasses ==
    (last.op = "password" /\ password_length(last.length) >= 3)
       => /\ Len(last.password) = password_length(last.length)
          /\ AnyIn(last.password, Lowercase)
          /\ AnyIn(last.password, Uppercase)
          /\ AnyIn(last.password, Digits)

C26_ManagerReference ==
    (last.op = "payload" /\ ~last.out.raised)
       => LET m == last.profile.manager
              p == last.out.payload
              key == "manager@odata.bind"
              linked == m.exists /\ m.remote_id # NULL
          IN  /\ linked => (key \in DOMAIN p /\ p[key] = Val(manager_url(m.remote_id)))
              /\ (key \in DOMAIN p /\ ~p[key].null) => linked
              /\ (m.exists /\ m.remote_id = NULL) => key \notin DOMAIN p
              /\ last.kind = "update" => ((key \in DOMAIN p /\ p[key].null) <=> ~m.exists)
              /\ (last.kind = "create" /\ ~m.exists) => key \notin DOMAIN p

\* an update payload was built for a target whose manager is not linked
C26_Witness ==
    /\ last.op = "payload" /\ last.kind = "update" /\ ~last.out.raised
    /\ last.profile.manager.exists /\ last.profile.manager.remote_id = NULL
    /\ "manager@odata.bind" \notin DOMAIN last.out.payload

(* ------------------------------------------------------------------ C23 *)
\* C23: a run of the stuck-pending sweep leaves every target that was pending
\* and last modified more than the threshold before it with status failed
\* and with a non-empty last_error that the sweep wrote, one that is not the
\* text left over from an earlier attempt.
C23_Step(u) ==
    (last'.op = "cleanup" /\ users[u].status = "pending" /\ now - modified[u] > Threshold)
       => /\ users'[u].status = "failed"
          /\ users'[u].error # <<>>
          /\ users'[u].error # users[u].error

C24_ExhaustedRecorded ==
    (last.op = "task" /\ last.outcome = "failure" /\ last.msg.retries = max_retries)
       => /\ users[last.msg.user_id].status = "failed"
          /\ users[last.msg.user_id].error # <<>>

(* ------------------------------------------------------------------ C25 *)
\* C25: a run of the sync task whose remote create or update succeeds leaves
\* the target with status synced, last_sync_at the time of the call and an
\* empty last_error, and changes no other field but the remote_id a create
\* sets; the result carries the temporary credential exactly when the
\* request was a create.
C25_Step(u) ==
    LET c == last'.res[u] IN
    (last'.op = "task" /\ c.called /\ c.ok /\ last'.msg.action \in {"create", "sync"})
       => LET post == IssuedGraph(c.calls, "POST") IN
          /\ users'[u] = [users[u] EXCEPT !.status = "synced",
                                          !.last_sync = now,
                                          !.error = EmptyStr,
                                          !.remote_id = IF post
                                                        THEN c.result.azure_ad_object_id
                                                        ELSE @]
          /\ post <=> "temporary_password" \in DOMAIN c.result
          /\ ~post => IssuedGraph(c.calls, "PATCH")

C25_SuccessRecorded == [][\A u \in Users : C25_Step(u)]_vars

\* an update by the task succeeded after the clock had advanced
C25_Witness ==
    /\ last.op = "task" /\ last.outcome = "success"
    /\ \E u \in Users :
          /\ last.res[u].called /\ last.res[u].ok
          /\ IssuedGraph(last.res[u].calls, "PATCH")
          /\ "temporary_password" \notin DOMAIN last.res[u].result
          /\ now >= 2 /\ users[u].last_sync = now
          /\ users[u].status = "synced" /\ users[u].error = EmptyStr

(* ------------------------------------------------------------------ C27 *)
\* C27: while two workers run queued sync tasks of a target, at most one of
\* them has issued a remote create for it, and at most one create succeeds.
C27_OneCreate ==
    \A u \in Users :
       /\ Cardinality({p \in Workers :
                          /\ procs[p].pc = "answered"
                          /\ procs[p].msg.user_id = u
                          /\ IssuedGraph(procs[p].res[u].calls, "POST")}) <= 1
       /\ creates[u] <= 1

(* ------------------------------------------------------------------ C28 *)
\* C28: no step of the endpoint or of a worker replaces a remote_id stored
\* on the target by null.
C28_Step(u) == users[u].remote_id # NULL => users'[u].remote_id # NULL

C28_NoLostRemoteId == [][\A u \in Users : C28_Step(u)]_vars

(* ------------------------------------------------------------------ C29 *)
\* C29: when a run of the task ends by returning a result, with success or
\* with failure and without scheduling a retry, the status of its target is
\* not pending.
C29_ReturnedNotPending ==
    (last.op = "task" /\ last.outcome \in {"success", "failure"})
       => users[last.msg.user_id].status # "pending"

(* ------------------------------------------------------------------ C30 *)
\* C30: in every state the sync, update, disable, delete, unlink, toggle,
\* reset and bulk operations reach, a target with status synced has a
\* remote_id that is not null.
C30_SyncedIsLinked ==
    \A u \in Users : users[u].status = "synced" => users[u].remote_id # NULL

\* a linked target was disabled in the remote directory and is synced
C30_Witness ==
    \E u \in Users :
       /\ last.op = "disable" /\ last.res[u].called /\ last.res[u].ok
       /\ users[u].status = "synced" /\ users[u].remote_id # NULL

====
